---- MODULE Spec2Model ----
(***************************************************************************)
(* The HTTP sink plugin (internal/plugin/sink.go): the session registry    *)
(* as HTTPSink uses it, the Write stream handler and sendBatch.            *)
(*                                                                         *)
(* Bytes are sequences of one-character strings.  An error value is the    *)
(* record [msg, status, body, cause] of what its message is formatted     *)
(* from; the nil error is NoErr.                                           *)
(***************************************************************************)
EXTENDS Integers, Sequences, FiniteSets, TLC

\* ------------------------------------------------------------------ bounds

\* Session identifiers the registry can hand out: 1..MaxSessions.
MaxSessions == 2
\* Messages received over all Write streams together.
MaxMsgs == 2
\* Records in one batch handed to sendBatch (specification SendSpec).
MaxRecords == 2

\* The Write streams, and the ones specification Spec has callers for.
Streams == {"w1", "w2"}
Callers == {"w1"}

\* ------------------------------------------------------------- error values

\* msg: the format's fixed text; status, body, cause: what it interpolates.
NoErr == [msg |-> "", status |-> 0, body |-> <<>>, cause |-> ""]

Errorf(msg, status, body, cause) ==
    [msg |-> msg, status |-> status, body |-> body, cause |-> cause]

\* ------------------------------------------------------------------- Config

\* The zero value of Config: what json.Unmarshal starts from.
ZeroConfig ==
    [Endpoint |-> "", Method |-> "", Headers |-> <<>>, Timeout |-> "",
     BatchFormat |-> ""]

\* json.Unmarshal(req.ConfigJson, &cfg).  A raw config is [json, fields]:
\* json says whether the bytes are a JSON object whose members have the
\* types of Config's fields; fields holds the members that are present.
\* Members that are absent keep the zero value.
Member(raw, name, zero) ==
    IF name \in DOMAIN raw.fields THEN raw.fields[name] ELSE zero

Unmarshal(raw) ==
    IF ~raw.json
    THEN [err |-> Errorf("invalid config", 0, <<>>, "json"), cfg |-> ZeroConfig]
    ELSE [err |-> NoErr,
          cfg |-> [Endpoint    |-> Member(raw, "endpoint", ""),
                   Method      |-> Member(raw, "method", ""),
                   Headers     |-> Member(raw, "headers", <<>>),
                   Timeout     |-> Member(raw, "timeout", ""),
                   BatchFormat |-> Member(raw, "batch_format", "")]]

\* time.ParseDuration on the timeout strings of the model, in seconds.
ParseDuration(s) ==
    CASE s = "30s" -> [ok |-> TRUE, d |-> 30]
      [] s = "5s"  -> [ok |-> TRUE, d |-> 5]
      [] s = "1m"  -> [ok |-> TRUE, d |-> 60]
      [] OTHER     -> [ok |-> FALSE, d |-> 0]

DefaultTimeout == 30

ClientTimeoutStrict(cfg) == ParseDuration(cfg.Timeout).d

\* The timeout CreateSession gives the session's http.Client.
ClientTimeout(cfg) ==
    IF cfg.Timeout # "" /\ ParseDuration(cfg.Timeout).ok
    THEN ParseDuration(cfg.Timeout).d
    ELSE DefaultTimeout

\* ------------------------------------------------------------ batch, JSON

\* A record's Payload is a []byte: nil, or the bytes b.
NilPayload == [nil |-> TRUE, b |-> <<>>]
Bytes(seq) == [nil |-> FALSE, b |-> seq]

IsSpace(c) == c \in {" "}
IsDigit(c) == c \in {"1", "2"}
NullLiteral == <<"n", "u", "l", "l">>

NoSpace(c) == ~IsSpace(c)

\* Whether the bytes are one JSON value (encoding/json's scanner): optional
\* white space, a number or null, optional white space.
ValidJSON(bs) ==
    LET val == SelectSeq(bs, NoSpace)
    IN  /\ val # <<>>
        /\ \/ \A i \in 1..Len(val) : IsDigit(val[i])
           \/ val = NullLiteral
        /\ \A i, j, k \in 1..Len(bs) :
              (i < j /\ j < k /\ ~IsSpace(bs[i]) /\ ~IsSpace(bs[k]))
                  => ~IsSpace(bs[j])

\* json's appendCompact: the value without its insignificant white space,
\* or an error when the bytes are no JSON value.
Compact(bs) ==
    IF ValidJSON(bs)
    THEN [ok |-> TRUE, out |-> SelectSeq(bs, NoSpace)]
    ELSE [ok |-> FALSE, out |-> <<>>]

\* json.RawMessage.MarshalJSON: null for a nil message, else the message.
MarshalJSON(p) == IF p.nil THEN NullLiteral ELSE p.b

\* The encoder's treatment of one json.RawMessage element.
MarshalElement(p) == Compact(MarshalJSON(p))

RECURSIVE JoinElements(_)
JoinElements(elems) ==
    IF elems = <<>> THEN <<>>
    ELSE IF Len(elems) = 1 THEN elems[1]
    ELSE elems[1] \o <<",">> \o JoinElements(Tail(elems))

MarshalFlip(payloads) ==
    LET n == Len(payloads)
        es == [i \in 1..n |-> MarshalElement(payloads[n + 1 - i])]
    IN  IF \E i \in 1..n : ~es[i].ok
        THEN [ok |-> FALSE, out |-> <<>>]
        ELSE [ok |-> TRUE,
              out |-> <<"[">> \o JoinElements([i \in 1..n |-> es[i].out])
                        \o <<"]">>]

\* json.Marshal(payloads) for payloads []json.RawMessage.
Marshal(payloads) ==
    LET es == [i \in 1..Len(payloads) |-> MarshalElement(payloads[i])]
    IN  IF \E i \in 1..Len(payloads) : ~es[i].ok
        THEN [ok |-> FALSE, out |-> <<>>]
        ELSE [ok |-> TRUE,
              out |-> <<"[">>
                        \o JoinElements([i \in 1..Len(payloads) |-> es[i].out])
                        \o <<"]">>]

RECURSIVE NdjsonLead(_)
NdjsonLead(records) ==
    IF records = <<>> THEN <<>>
    ELSE <<"\n">> \o Head(records).Payload.b \o NdjsonLead(Tail(records))

\* The ndjson branch of sendBatch: buf.Write(r.Payload); buf.WriteByte('\n').
RECURSIVE Ndjson(_)
Ndjson(records) ==
    IF records = <<>> THEN <<>>
    ELSE Head(records).Payload.b \o <<"\n">> \o Ndjson(Tail(records))

\* The switch on cfg.BatchFormat in sendBatch: the body, or the marshal error.
FormatBody(cfg, b) ==
    IF cfg.BatchFormat = "ndjson"
    THEN [err |-> NoErr, body |-> Ndjson(b)]
    ELSE LET m == Marshal([i \in 1..Len(b) |-> b[i].Payload])
         IN  IF m.ok THEN [err |-> NoErr, body |-> m.out]
             ELSE [err |-> Errorf("failed to marshal batch", 0, <<>>, "json"),
                   body |-> <<>>]

\* ------------------------------------------------------- request, response

\* net/http's validMethod: every byte a token character.  "P T" is the
\* model's method with a byte that is none.
ValidMethod(m) == m # "P T"

\* url.Parse on the endpoints of the model: ":bad" has no scheme.
ParsesURL(u) == u # ":bad"

NoRequest == [Method |-> "", URL |-> "", Body |-> <<>>, Header |-> <<>>]

\* http.NewRequestWithContext(ctx, method, cfg.Endpoint, body).
NewRequestWithContext(method, url, body) ==
    IF ValidMethod(method) /\ ParsesURL(url)
    THEN [err |-> NoErr,
          req |-> [Method |-> method, URL |-> url, Body |-> body,
                   Header |-> <<>>]]
    ELSE [err |-> Errorf("failed to create request", 0, <<>>, "net/http"),
          req |-> NoRequest]

\* textproto.CanonicalMIMEHeaderKey on the header keys of the model.
CanonicalMIMEHeaderKey(k) ==
    CASE k = "content-type" -> "Content-Type"
      [] k = "x-tenant"     -> "X-Tenant"
      [] OTHER              -> k

\* http.Header.Set(k, v): the canonical key now carries v alone.
HeaderSet(h, k, v) ==
    LET ck == CanonicalMIMEHeaderKey(k)
    IN  [x \in DOMAIN h \cup {ck} |-> IF x = ck THEN v ELSE h[x]]

RECURSIVE SetAll(_, _, _)
SetAll(h, headers, order) ==
    IF order = <<>> THEN h
    ELSE SetAll(HeaderSet(h, Head(order), headers[Head(order)]), headers,
                Tail(order))

\* The orders in which range may visit the keys of a map.
RangeOrders(m) ==
    LET n == Cardinality(DOMAIN m)
    IN  {o \in [1..n -> DOMAIN m] :
            \A i, j \in 1..n : i # j => o[i] # o[j]}

\* sendBatch's "Set headers": Content-Type first, then cfg.Headers in the
\* order range visits them.  The set of headers the request can end with.
RequestHeaders(headers) ==
    {SetAll(HeaderSet(<<>>, "Content-Type", "application/json"), headers, o) :
        o \in RangeOrders(headers)}

MethodAsIs(cfg) == cfg.Method

\* method := cfg.Method, http.MethodPost when it is empty.
Method(cfg) == IF cfg.Method = "" THEN "POST" ELSE cfg.Method

\* sendBatch up to client.Do: the request without its headers, or the error
\* sendBatch returns before any request is made.
BuildRequest(cfg, b) ==
    LET fb == FormatBody(cfg, b)
    IN  IF fb.err # NoErr THEN [err |-> fb.err, req |-> NoRequest]
        ELSE NewRequestWithContext(Method(cfg), cfg.Endpoint, fb.body)

\* What client.Do returns: a transport error (cause # ""), or a response
\* [StatusCode, Body]; read is how many bytes of Body io.ReadAll gets before
\* it fails (Len(Body): it does not fail).
DoResult(cause, status, body, read) ==
    [cause |-> cause, StatusCode |-> status, Body |-> body, read |-> read]

\* sendBatch from client.Do's return on.
AfterDoLenient(r) ==
    IF r.cause # "" THEN Errorf("HTTP request failed", 0, <<>>, r.cause)
    ELSE IF r.StatusCode >= 500
    THEN Errorf("HTTP", r.StatusCode, SubSeq(r.Body, 1, r.read), "")
    ELSE NoErr

AfterDo(r) ==
    IF r.cause # "" THEN Errorf("HTTP request failed", 0, <<>>, r.cause)
    ELSE IF r.StatusCode >= 400
    THEN Errorf("HTTP", r.StatusCode, SubSeq(r.Body, 1, r.read), "")
    ELSE NoErr

\* ------------------------------------------------------------------- inputs

\* The raw configurations CreateSession is called with.
NoRaw == [json |-> FALSE, fields |-> <<>>]

Scenario ==
    [json |-> TRUE,
     fields |-> ("endpoint" :> "http://x/ingest" @@ "method" :> "PUT"
                 @@ "headers" :> ("X-Tenant" :> "t1")
                 @@ "batch_format" :> "ndjson")]

Defaults == [json |-> TRUE, fields |-> ("endpoint" :> "http://y/bulk")]

RawConfigs == {NoRaw, Scenario, Defaults}

Tenants == {"t1"}

SessionIds == 1..MaxSessions

Record(bs) == [Payload |-> Bytes(bs)]

\* A packed batch: the bytes decode to batch, or do not decode.
Pack(b) == [ok |-> TRUE, batch |-> b]
Garbage == [ok |-> FALSE, batch |-> <<>>]

PackedBatches ==
    { Garbage, Pack(<<Record(<<"1">>), Record(<<"x">>)>>) }

\* batch.UnpackBatch(req.PackedBatch).
UnpackBatch(p) ==
    IF p.ok THEN [err |-> NoErr, b |-> p.batch]
    ELSE [err |-> Errorf("unpack", 0, <<>>, "decode"), b |-> <<>>]

Messages == [SessionId : SessionIds, PackedBatch : PackedBatches]

NoMessage == [SessionId |-> 0, PackedBatch |-> Garbage]

\* What client.Do can return to a stream whose context is not cancelled.
Responses == { DoResult("", 200, <<>>, 0), DoResult("", 500, <<"e">>, 1) }

Canceled == DoResult("context canceled", 0, <<>>, 0)

\* ------------------------------------------------------------------- state

VARIABLES
    sessions,        \* session.Manager: the identifiers it maps to a session
    sess,            \* the session objects, by identifier
    nextId,          \* the next identifier Manager.Create hands out
    create,          \* the CreateSession call in progress
    rpc,             \* the last return of a unary call (RegistrySpec)
    pc,              \* each Write stream's position
    currentSession,  \* Write's currentSession (0: nil)
    cfg,             \* Write's cfg
    client,          \* Write's client
    req,             \* the message Recv returned last
    recvd,           \* the messages Recv has returned, in order
    acks,            \* the AckResponses handed to stream.Send, in order
    outcomes,        \* per message handled: its number, its branch's error
    wire,            \* the requests handed to client.Do, in order
    inflight,        \* the request client.Do is executing
    cancelled,       \* whether the stream's context is cancelled
    ret,             \* what Write returned ("": still running)
    sb               \* one sendBatch call (specification SendSpec)

sinkVars ==
    <<sessions, sess, nextId, create, rpc, pc, currentSession,
      cfg, client, req, recvd, acks, outcomes, wire, inflight, cancelled, ret>>

vars == <<sinkVars, sb>>

registryVars == <<sessions, sess, nextId, create>>

streamVars ==
    <<pc, currentSession, cfg, client, req, recvd, acks, outcomes, wire,
      inflight, cancelled, ret>>

NoSession == [ID |-> 0, TenantID |-> "", Config |-> NoRaw, data |-> <<>>]

NoClient == [Timeout |-> 0]

Idle == [pc |-> "idle", id |-> 0, cfg |-> ZeroConfig]

NoSendBatch ==
    [pc |-> "idle", cfg |-> ZeroConfig, b |-> <<>>, req |-> NoRequest,
     err |-> NoErr, res |-> Canceled]

\* A unary call's return: the call, the error handed to its caller, and the
\* error the handler only logs.
Returned(call, err, logged) == [call |-> call, err |-> err, logged |-> logged]

\* What a step that returns nothing to a caller hands out.
Running == Returned("", NoErr, NoErr)

SinkInit ==
    /\ sessions = {}
    /\ sess = [i \in SessionIds |-> NoSession]
    /\ nextId = 1
    /\ create = Idle
    /\ rpc = Running
    /\ pc = [st \in Streams |-> "recv"]
    /\ currentSession = [st \in Streams |-> 0]
    /\ cfg = [st \in Streams |-> ZeroConfig]
    /\ client = [st \in Streams |-> NoClient]
    /\ req = [st \in Streams |-> NoMessage]
    /\ recvd = [st \in Streams |-> <<>>]
    /\ acks = [st \in Streams |-> <<>>]
    /\ outcomes = [st \in Streams |-> <<>>]
    /\ wire = [st \in Streams |-> <<>>]
    /\ inflight = [st \in Streams |-> NoRequest]
    /\ cancelled = [st \in Streams |-> FALSE]
    /\ ret = [st \in Streams |-> ""]

Init == SinkInit /\ sb = NoSendBatch

\* ----------------------------------------------------------- session.Manager

\* Manager.Create(tenantId, configJson): a session under a fresh identifier,
\* in the map when Create returns.
ManagerCreate(tenant, raw) ==
    /\ sessions' = sessions \cup {nextId}
    /\ sess' = [sess EXCEPT ![nextId] =
                   [ID |-> nextId, TenantID |-> tenant, Config |-> raw,
                    data |-> <<>>]]
    /\ nextId' = nextId + 1

\* Manager.Get(id): the session, or an error when the map has none.
ManagerGet(id) ==
    IF id \in sessions THEN [err |-> NoErr, id |-> id]
    ELSE [err |-> Errorf("session not found", 0, <<>>, "session"), id |-> 0]

\* Manager.Close(id): the map without id, or an error when it has none.
ManagerClose(id) ==
    IF id \in sessions
    THEN [err |-> NoErr, sessions |-> sessions \ {id}]
    ELSE [err |-> Errorf("session not found", 0, <<>>, "session"),
          sessions |-> sessions]

\* Session.SetData(key, value) and Session.GetData(key).
SetData(s, key, value) ==
    [s EXCEPT !.data = [k \in DOMAIN s.data \cup {key} |->
                            IF k = key THEN value ELSE s.data[k]]]

HasData(s, key) == key \in DOMAIN s.data

\* ------------------------------------------------------------ CreateSession

ValidateNoEndpoint(raw) == Unmarshal(raw)

\* CreateSession's "Validate config": the error it returns, or the config.
Validate(raw) ==
    LET u == Unmarshal(raw)
    IN  IF u.err # NoErr THEN u
        ELSE IF u.cfg.Endpoint = ""
        THEN [err |-> Errorf("endpoint is required", 0, <<>>, ""),
              cfg |-> u.cfg]
        ELSE u

\* CreateSession up to s.sessions.Create: only a valid config reaches Create.
CreateSession(tenant, raw) ==
    /\ create.pc = "idle"
    /\ IF Validate(raw).err # NoErr
       THEN UNCHANGED <<sessions, sess, nextId, create>>
       ELSE /\ nextId <= MaxSessions
            /\ ManagerCreate(tenant, raw)
            /\ create' = [pc |-> "setClient", id |-> nextId,
                          cfg |-> Validate(raw).cfg]
    /\ UNCHANGED <<streamVars, sb>>

\* What that step returns to the caller: the validation's error, or nothing
\* yet.
CreateSessionReturn(raw) ==
    IF Validate(raw).err # NoErr
    THEN Returned("CreateSession", Validate(raw).err, NoErr)
    ELSE Running

\* sess.SetData("http_client", client), the client with the resolved timeout.
CreateSetClient ==
    /\ create.pc = "setClient"
    /\ sess' = [sess EXCEPT ![create.id] =
                   SetData(@, "http_client",
                           [Timeout |-> ClientTimeout(create.cfg)])]
    /\ create' = [create EXCEPT !.pc = "setConfig"]
    /\ UNCHANGED <<sessions, nextId, streamVars, sb>>

\* sess.SetData("config", cfg), and the return of the session's identifier.
CreateSetConfig ==
    /\ create.pc = "setConfig"
    /\ sess' = [sess EXCEPT ![create.id] = SetData(@, "config", create.cfg)]
    /\ create' = Idle
    /\ UNCHANGED <<sessions, nextId, streamVars, sb>>

CreateSetConfigReturn == Returned("CreateSession", NoErr, NoErr)

\* ------------------------------------------------------------- CloseSession

CloseSessionAll(id) ==
    /\ sessions' = {}
    /\ UNCHANGED <<sess, nextId, create, streamVars, sb>>

\* CloseSession: s.sessions.Close(req.SessionId).
CloseSession(id) ==
    /\ sessions' = ManagerClose(id).sessions
    /\ UNCHANGED <<streamVars, nextId, create, sess, sb>>

\* Close's error is logged; the call returns &Empty{}, nil.
CloseSessionReturn(id) ==
    Returned("CloseSession", NoErr, ManagerClose(id).err)

\* -------------------------------------------------------------------- Write

RECURSIVE Total(_, _)
Total(f, S) ==
    IF S = {} THEN 0
    ELSE LET x == CHOOSE y \in S : TRUE IN Len(f[x]) + Total(f, S \ {x})

UnpackAck(err) == [Success |-> TRUE, Error |-> NoErr]

DeliveryNackBare(err) == [Success |-> FALSE, Error |-> NoErr]

\* The AckResponse of each branch of Write.
UnpackNack(err) ==
    [Success |-> FALSE,
     Error |-> Errorf("failed to unpack batch", 0, <<>>, err.cause)]

DeliveryNack(err) == [Success |-> FALSE, Error |-> err]

Ack == [Success |-> TRUE, Error |-> NoErr]

\* The outcome of the message in hand: which message of the stream it is, and
\* the error of its branch of the loop (NoErr: delivered).
Outcome(n, err) == [n |-> n, err |-> err]

\* Whether stream.Send can fail: only on a stream whose context is done.
SendResults(st) == IF cancelled[st] THEN {TRUE, FALSE} ELSE {TRUE}

SendSkip(st, ack, sendOk) ==
    /\ acks' = [acks EXCEPT ![st] = IF ack.Success THEN Append(@, ack) ELSE @]
    /\ IF sendOk
       THEN pc' = [pc EXCEPT ![st] = "recv"] /\ ret' = ret
       ELSE /\ pc' = [pc EXCEPT ![st] = "done"]
            /\ ret' = [ret EXCEPT ![st] = "sendErr"]

\* stream.Send(ack) and what follows it: the next Recv, or the return of
\* Send's error.
Send(st, ack, sendOk) ==
    /\ acks' = [acks EXCEPT ![st] = Append(@, ack)]
    /\ IF sendOk
       THEN pc' = [pc EXCEPT ![st] = "recv"] /\ ret' = ret
       ELSE /\ pc' = [pc EXCEPT ![st] = "done"]
            /\ ret' = [ret EXCEPT ![st] = "sendErr"]

\* stream.Recv() returns io.EOF: Write returns nil.
WriteEOF(st) ==
    /\ pc[st] = "recv"
    /\ ~cancelled[st]
    /\ pc' = [pc EXCEPT ![st] = "done"]
    /\ ret' = [ret EXCEPT ![st] = "nil"]
    /\ UNCHANGED <<rpc, registryVars, currentSession, cfg, client, req, recvd, acks,
                   outcomes, wire, inflight, cancelled, sb>>

\* stream.Recv() returns another error: Write returns it.
WriteRecvErr(st) ==
    /\ pc[st] = "recv"
    /\ cancelled[st]
    /\ pc' = [pc EXCEPT ![st] = "done"]
    /\ ret' = [ret EXCEPT ![st] = "recvErr"]
    /\ UNCHANGED <<rpc, registryVars, currentSession, cfg, client, req, recvd, acks,
                   outcomes, wire, inflight, cancelled, sb>>

\* What client.Do can return to stream st.
DoResults(st) == IF cancelled[st] THEN {Canceled} ELSE Responses

DeliverAsync(st, m, n) ==
    LET u == UnpackBatch(m.PackedBatch)
        r == BuildRequest(cfg'[st], u.b)
    IN  IF u.err # NoErr
        THEN /\ outcomes' = [outcomes EXCEPT ![st] = Append(@, Outcome(n, u.err))]
             /\ \E sendOk \in SendResults(st) :
                   Send(st, UnpackNack(u.err), sendOk)
             /\ UNCHANGED <<wire, inflight>>
        ELSE IF r.err # NoErr
        THEN /\ outcomes' = [outcomes EXCEPT ![st] = Append(@, Outcome(n, r.err))]
             /\ \E sendOk \in SendResults(st) :
                   Send(st, DeliveryNack(r.err), sendOk)
             /\ UNCHANGED <<wire, inflight>>
        ELSE /\ \E h \in RequestHeaders(cfg'[st].Headers) :
                   /\ inflight' = [inflight EXCEPT ![st] =
                                      [r.req EXCEPT !.Header = h]]
                   /\ wire' = [wire EXCEPT ![st] =
                                  Append(@, [r.req EXCEPT !.Header = h])]
             /\ pc' = [pc EXCEPT ![st] = "recv"]
             /\ UNCHANGED <<acks, outcomes, ret>>

\* From batch.UnpackBatch(req.PackedBatch) to client.Do: a batch that does
\* not unpack, or one sendBatch fails on before Do, is answered at once;
\* else the request is handed to client.Do.  m is the stream's n-th message.
Deliver(st, m, n) ==
    LET u == UnpackBatch(m.PackedBatch)
        r == BuildRequest(cfg'[st], u.b)
    IN  IF u.err # NoErr
        THEN /\ outcomes' = [outcomes EXCEPT ![st] = Append(@, Outcome(n, u.err))]
             /\ \E sendOk \in SendResults(st) :
                   Send(st, UnpackNack(u.err), sendOk)
             /\ UNCHANGED <<wire, inflight>>
        ELSE IF r.err # NoErr
        THEN /\ outcomes' = [outcomes EXCEPT ![st] = Append(@, Outcome(n, r.err))]
             /\ \E sendOk \in SendResults(st) :
                   Send(st, DeliveryNack(r.err), sendOk)
             /\ UNCHANGED <<wire, inflight>>
        ELSE /\ \E h \in RequestHeaders(cfg'[st].Headers) :
                   /\ inflight' = [inflight EXCEPT ![st] =
                                      [r.req EXCEPT !.Header = h]]
                   /\ wire' = [wire EXCEPT ![st] =
                                  Append(@, [r.req EXCEPT !.Header = h])]
             /\ pc' = [pc EXCEPT ![st] = "do"]
             /\ UNCHANGED <<acks, outcomes, ret>>

ResolveUnchecked(st, id) ==
    /\ currentSession' = [currentSession EXCEPT ![st] = id]
    /\ pc' = [pc EXCEPT ![st] = "getClient"]
    /\ UNCHANGED ret

ResolveStale(st, id) ==
    IF id >= nextId
    THEN /\ pc' = [pc EXCEPT ![st] = "done"]
         /\ ret' = [ret EXCEPT ![st] = "notFound"]
         /\ UNCHANGED currentSession
    ELSE /\ currentSession' = [currentSession EXCEPT ![st] = id]
         /\ pc' = [pc EXCEPT ![st] = "getClient"]
         /\ UNCHANGED ret

ResolveLocked(st, id) ==
    LET g == ManagerGet(id)
    IN  /\ \A o \in Streams : pc[o] # "do"
        /\ IF g.err # NoErr
           THEN /\ pc' = [pc EXCEPT ![st] = "done"]
                /\ ret' = [ret EXCEPT ![st] = "notFound"]
                /\ UNCHANGED currentSession
           ELSE /\ currentSession' = [currentSession EXCEPT ![st] = g.id]
                /\ pc' = [pc EXCEPT ![st] = "getClient"]
                /\ UNCHANGED ret

\* currentSession, err = s.sessions.Get(req.SessionId); Write returns err.
Resolve(st, id) ==
    LET g == ManagerGet(id)
    IN  IF g.err # NoErr
        THEN /\ pc' = [pc EXCEPT ![st] = "done"]
             /\ ret' = [ret EXCEPT ![st] = "notFound"]
             /\ UNCHANGED currentSession
        ELSE /\ currentSession' = [currentSession EXCEPT ![st] = g.id]
             /\ pc' = [pc EXCEPT ![st] = "getClient"]
             /\ UNCHANGED ret

WriteRecvRebind(st, m) ==
    /\ pc[st] = "recv"
    /\ ~cancelled[st]
    /\ Total(recvd, Streams) < MaxMsgs
    /\ recvd' = [recvd EXCEPT ![st] = Append(@, m)]
    /\ req' = [req EXCEPT ![st] = m]
    /\ IF currentSession[st] # m.SessionId
       THEN /\ Resolve(st, m.SessionId)
            /\ UNCHANGED <<cfg, acks, outcomes, wire, inflight>>
       ELSE /\ UNCHANGED <<currentSession, cfg>>
            /\ Deliver(st, m, Len(recvd[st]) + 1)
    /\ UNCHANGED <<rpc, registryVars, client, cancelled, sb>>

\* stream.Recv() returns message m.  On the first one the session is looked
\* up; on a later one the batch is delivered.
WriteRecv(st, m) ==
    /\ pc[st] = "recv"
    /\ ~cancelled[st]
    /\ Total(recvd, Streams) < MaxMsgs
    /\ recvd' = [recvd EXCEPT ![st] = Append(@, m)]
    /\ req' = [req EXCEPT ![st] = m]
    /\ IF currentSession[st] = 0
       THEN /\ Resolve(st, m.SessionId)
            /\ UNCHANGED <<cfg, acks, outcomes, wire, inflight>>
       ELSE /\ UNCHANGED <<currentSession, cfg>>
            /\ Deliver(st, m, Len(recvd[st]) + 1)
    /\ UNCHANGED <<rpc, registryVars, client, cancelled, sb>>

\* clientVal, _ := currentSession.GetData("http_client");
\* client = clientVal.(*http.Client): the assertion panics on a nil clientVal.
WriteGetClient(st) ==
    /\ pc[st] = "getClient"
    /\ LET s == sess[currentSession[st]]
       IN  IF HasData(s, "http_client")
           THEN /\ client' = [client EXCEPT ![st] = s.data["http_client"]]
                /\ pc' = [pc EXCEPT ![st] = "getConfig"]
                /\ UNCHANGED ret
           ELSE /\ pc' = [pc EXCEPT ![st] = "done"]
                /\ ret' = [ret EXCEPT ![st] = "panic"]
                /\ UNCHANGED client
    /\ UNCHANGED <<rpc, registryVars, currentSession, cfg, req, recvd, acks,
                   outcomes, wire, inflight, cancelled, sb>>

\* cfgVal, _ := currentSession.GetData("config"); cfg = cfgVal.(Config), which
\* panics on a nil cfgVal; then the first batch is delivered.
WriteGetConfig(st) ==
    /\ pc[st] = "getConfig"
    /\ LET s == sess[currentSession[st]]
       IN  IF HasData(s, "config")
           THEN /\ cfg' = [cfg EXCEPT ![st] = s.data["config"]]
                /\ Deliver(st, req[st], Len(recvd[st]))
           ELSE /\ pc' = [pc EXCEPT ![st] = "done"]
                /\ ret' = [ret EXCEPT ![st] = "panic"]
                /\ UNCHANGED <<cfg, acks, outcomes, wire, inflight>>
    /\ UNCHANGED <<rpc, registryVars, currentSession, client, req, recvd,
                   cancelled, sb>>

WriteDoDrop(st, r) ==
    /\ pc[st] = "do"
    /\ r \in DoResults(st)
    /\ LET err == AfterDo(r)
       IN  /\ outcomes' = [outcomes EXCEPT ![st] = Append(@, Outcome(Len(recvd[st]), err))]
           /\ IF err # NoErr
              THEN /\ pc' = [pc EXCEPT ![st] = "recv"]
                   /\ UNCHANGED <<acks, ret>>
              ELSE \E sendOk \in SendResults(st) : Send(st, Ack, sendOk)
    /\ inflight' = [inflight EXCEPT ![st] = NoRequest]
    /\ UNCHANGED <<rpc, registryVars, currentSession, cfg, client, req, recvd,
                   wire, cancelled, sb>>

\* client.Do returns; sendBatch returns; the acknowledgment is sent.
WriteDo(st, r) ==
    /\ pc[st] = "do"
    /\ r \in DoResults(st)
    /\ LET err == AfterDo(r)
       IN  /\ outcomes' = [outcomes EXCEPT ![st] = Append(@, Outcome(Len(recvd[st]), err))]
           /\ \E sendOk \in SendResults(st) :
                 Send(st, IF err # NoErr THEN DeliveryNack(err) ELSE Ack,
                      sendOk)
    /\ inflight' = [inflight EXCEPT ![st] = NoRequest]
    /\ UNCHANGED <<rpc, registryVars, currentSession, cfg, client, req, recvd,
                   wire, cancelled, sb>>

\* The stream's context is cancelled (the caller went away).
Cancel(st) ==
    /\ pc[st] \in {"recv", "do"}
    /\ ~cancelled[st]
    /\ cancelled' = [cancelled EXCEPT ![st] = TRUE]
    /\ UNCHANGED <<rpc, registryVars, pc, currentSession, cfg, client, req, recvd,
                   acks, outcomes, wire, inflight, ret, sb>>

Next ==
    \/ \E t \in Tenants, raw \in RawConfigs :
          CreateSession(t, raw) /\ UNCHANGED rpc
    \/ CreateSetClient /\ UNCHANGED rpc
    \/ CreateSetConfig /\ UNCHANGED rpc
    \/ \E id \in SessionIds : CloseSession(id) /\ UNCHANGED rpc
    \/ \E st \in Callers : WriteEOF(st)
    \/ \E st \in Callers : WriteRecvErr(st)
    \/ \E st \in Callers, m \in Messages : WriteRecv(st, m)
    \/ \E st \in Callers : WriteGetClient(st)
    \/ \E st \in Callers : WriteGetConfig(st)
    \/ \E st \in Callers, r \in Responses \cup {Canceled} : WriteDo(st, r)
    \/ \E st \in Callers : Cancel(st)

Spec == Init /\ [][Next]_vars

\* Write runs on: it is not suspended for ever before a step it can take,
\* and client.Do returns.  Receiving is the caller's choice and has no
\* fairness.
Fairness ==
    \A st \in Callers :
        /\ WF_vars(WriteGetClient(st))
        /\ WF_vars(WriteGetConfig(st))
        /\ WF_vars(\E r \in Responses \cup {Canceled} : WriteDo(st, r))

FairSpec == Init /\ [][Next]_vars /\ Fairness

\* ----------------------------------------------------------------- registry
\* The unary calls alone, on every kind of configuration, each return
\* recorded in rpc.

RegistryRawConfigs ==
    { NoRaw,
      [json |-> TRUE, fields |-> <<>>],
      [json |-> TRUE, fields |-> ("method" :> "PUT")],
      [json |-> TRUE, fields |-> ("endpoint" :> "" @@ "method" :> "PUT")],
      Scenario,
      Defaults,
      [json |-> TRUE,
       fields |-> ("endpoint" :> "http://y/bulk"
                   @@ "timeout" :> "not-a-duration")],
      [json |-> TRUE,
       fields |-> ("endpoint" :> "http://y/bulk" @@ "timeout" :> "5s")] }

RegistryTenants == {"t1", "t2"}

CreateSessionCall(t, raw) ==
    CreateSession(t, raw) /\ rpc' = CreateSessionReturn(raw)

CloseSessionCall(id) == CloseSession(id) /\ rpc' = CloseSessionReturn(id)

RegistryNext ==
    \/ \E t \in RegistryTenants, raw \in RegistryRawConfigs :
          CreateSessionCall(t, raw)
    \/ CreateSetClient /\ rpc' = Running
    \/ CreateSetConfig /\ rpc' = CreateSetConfigReturn
    \/ \E id \in SessionIds : CloseSessionCall(id)

RegistrySpec == Init /\ [][RegistryNext]_vars

\* --------------------------------------------------------------- concurrent
\* Two Write streams at once, next to the unary calls, on sessions of one
\* configuration and batches that decode.

ConcurrentMessages ==
    [SessionId : SessionIds,
     PackedBatch : {Pack(<<Record(<<"1">>), Record(<<"x">>)>>)}]

ConcurrentNext ==
    \/ CreateSession("t1", Scenario) /\ UNCHANGED rpc
    \/ CreateSetClient /\ UNCHANGED rpc
    \/ CreateSetConfig /\ UNCHANGED rpc
    \/ \E id \in SessionIds : CloseSession(id) /\ UNCHANGED rpc
    \/ \E st \in Streams : WriteEOF(st)
    \/ \E st \in Streams, m \in ConcurrentMessages : WriteRecv(st, m)
    \/ \E st \in Streams : WriteGetClient(st)
    \/ \E st \in Streams : WriteGetConfig(st)
    \/ \E st \in Streams, r \in Responses : WriteDo(st, r)

ConcurrentSpec == Init /\ [][ConcurrentNext]_vars

\* ---------------------------------------------------------------- sendBatch
\* One call of sendBatch(ctx, client, cfg, b) on inputs of its own.

SendMethods == {"", "PUT", "DELETE", "P T"}
SendFormats == {"", "json_array", "ndjson", "xml"}
SendHeaders ==
    { <<>>, ("X-Tenant" :> "t1"), ("Content-Type" :> "text/plain"),
      ("content-type" :> "a/b" @@ "Content-Type" :> "c/d") }

BaseConfig == [ZeroConfig EXCEPT !.Endpoint = "http://x/ingest"]

SendConfigs ==
    {[BaseConfig EXCEPT !.Method = m, !.BatchFormat = f] :
        m \in {"", "PUT"}, f \in SendFormats}
    \cup {[BaseConfig EXCEPT !.Method = m] : m \in SendMethods}
    \cup {[BaseConfig EXCEPT !.Headers = h] : h \in SendHeaders}
    \cup {[BaseConfig EXCEPT !.Endpoint = ":bad"]}

Payloads ==
    { NilPayload, Bytes(<<>>), Bytes(<<"1">>), Bytes(<<"2", " ">>),
      Bytes(<<"x">>), Bytes(<<"1", " ", "2">>) }

Batches ==
    UNION {[1..n -> [Payload : Payloads]] : n \in 0..MaxRecords}

Bodies == {<<>>, <<"e", "r">>}

\* Everything client.Do can return.
AllResponses ==
    {DoResult(c, 0, <<>>, 0) : c \in {"timeout", "context canceled"}}
    \cup UNION {{DoResult("", status, body, read) : read \in {0, Len(body)}} :
                   status \in {200, 302, 399, 400, 404, 500}, body \in Bodies}

\* sendBatch up to client.Do.
SendBatchCall(c, b) ==
    /\ sb.pc = "idle"
    /\ LET r == BuildRequest(c, b)
       IN  IF r.err # NoErr
           THEN sb' = [sb EXCEPT !.pc = "failed", !.cfg = c, !.b = b,
                                 !.err = r.err]
           ELSE \E h \in RequestHeaders(c.Headers) :
                   sb' = [sb EXCEPT !.pc = "do", !.cfg = c, !.b = b,
                                    !.req = [r.req EXCEPT !.Header = h]]
    /\ UNCHANGED sinkVars

\* client.Do returns r, and sendBatch returns.
SendBatchReturn(r) ==
    /\ sb.pc = "do"
    /\ sb' = [sb EXCEPT !.pc = "returned", !.res = r, !.err = AfterDo(r)]
    /\ UNCHANGED sinkVars

\* The next call.
SendBatchAgain ==
    /\ sb.pc \in {"failed", "returned"}
    /\ sb' = NoSendBatch
    /\ UNCHANGED sinkVars

SendNext ==
    \/ \E c \in SendConfigs, b \in Batches : SendBatchCall(c, b)
    \/ \E r \in AllResponses : SendBatchReturn(r)
    \/ SendBatchAgain

SendSpec == Init /\ [][SendNext]_vars

\* =================================================================== claims

Last(q) == q[Len(q)]

\* The step in which stream st receives a message, the last of recvd'.
Received(st) == Len(recvd'[st]) = Len(recvd[st]) + 1

\* Write has loaded client and cfg from its session: the stream is bound.
Bound(st) ==
    /\ currentSession[st] # 0
    /\ pc[st] \notin {"getClient", "getConfig"}
    /\ ret[st] # "panic"

\* Acknowledgment a answers message m, whose handling ended with error e.
Answers(a, m, e) ==
    IF e = NoErr
    THEN m.PackedBatch.ok /\ a.Success /\ a.Error = NoErr
    ELSE /\ ~a.Success
         /\ IF m.PackedBatch.ok THEN a.Error = e
            ELSE a.Error.msg = "failed to unpack batch"

\* C1: on a bound stream every message received has exactly one
\* acknowledgment handed to Send, except the one whose request client.Do is
\* still executing, which has none yet; never more acknowledgments than
\* messages; and the k-th acknowledgment answers the k-th message received.
C1_OneAckPerMessageInOrder ==
    \A st \in Streams :
        /\ Len(acks[st]) <= Len(recvd[st])
        /\ Len(outcomes[st]) = Len(acks[st])
        /\ Bound(st) =>
              Len(acks[st]) =
                  Len(recvd[st]) - (IF pc[st] = "do" THEN 1 ELSE 0)
        /\ \A k \in 1..Len(acks[st]) :
              /\ outcomes[st][k].n = k
              /\ Answers(acks[st][k], recvd[st][k], outcomes[st][k].err)

\* Two messages, the first refused and the second delivered, and the stream
\* ended by the caller.
C1_Witness ==
    \E st \in Streams :
        /\ ret[st] = "nil"
        /\ Len(recvd[st]) = 2
        /\ Len(acks[st]) = 2
        /\ ~acks[st][1].Success
        /\ acks[st][2].Success

\* C2: when the first message of a stream names a session the registry does
\* not hold, whatever its packed batch, Write returns the lookup's error in
\* that step with no acknowledgment handed to Send, and none is handed to
\* Send afterwards: the stream stays ended.
C2_UnknownSessionEndsStream ==
    [][\A st \in Streams :
          /\ (/\ currentSession[st] = 0
              /\ Received(st)
              /\ Last(recvd'[st]).SessionId \notin sessions
              /\ WriteRecv(st, Last(recvd'[st])))
             => (pc'[st] = "done" /\ ret'[st] = "notFound"
                 /\ acks'[st] = <<>> /\ wire'[st] = <<>>)
          /\ ret[st] = "notFound"
                => (pc'[st] = "done" /\ ret'[st] = "notFound"
                    /\ acks'[st] = <<>>)]_vars

\* A stream ended by a first message that names a session created and then
\* closed, with a batch that decodes.
C2_Witness ==
    \E st \in Streams :
        /\ ret[st] = "notFound"
        /\ Len(recvd[st]) = 1
        /\ recvd[st][1].PackedBatch.ok
        /\ recvd[st][1].SessionId < nextId
        /\ acks[st] = <<>>

\* The step in which stream st finishes a message with error e.
Finishes(st) == Len(outcomes'[st]) = Len(outcomes[st]) + 1

\* C3: when the delivery of a batch that decoded fails, that step hands Send
\* exactly one acknowledgment, negative and carrying sendBatch's error, and
\* Write goes back to Recv; it returns only when that Send itself fails,
\* which takes a cancelled stream.  A response with status >= 400 is such a
\* failure, and its status is in the acknowledgment.
C3_DeliveryFailureIsAcked ==
    [][\A st \in Streams :
          /\ (Finishes(st) /\ req'[st].PackedBatch.ok
                  /\ Last(outcomes'[st]).err # NoErr)
             => /\ acks'[st] =
                       Append(acks[st],
                              [Success |-> FALSE,
                               Error |-> Last(outcomes'[st]).err])
                /\ \/ pc'[st] = "recv" /\ ret'[st] = ""
                   \/ pc'[st] = "done" /\ ret'[st] = "sendErr"
                        /\ cancelled[st]
          /\ \A r \in Responses \cup {Canceled} :
                (WriteDo(st, r) /\ (r.cause # "" \/ r.StatusCode >= 400))
                => /\ Len(acks'[st]) = Len(acks[st]) + 1
                   /\ ~Last(acks'[st]).Success
                   /\ Last(acks'[st]).Error.status = r.StatusCode
                   /\ Last(acks'[st]).Error.cause = r.cause]_vars

\* A batch answered with the status 500 of its response, then a second
\* message received and delivered on the same stream.
C3_Witness ==
    \E st \in Streams :
        /\ Len(acks[st]) = 2
        /\ recvd[st][1].PackedBatch.ok
        /\ ~acks[st][1].Success
        /\ acks[st][1].Error.status = 500
        /\ acks[st][2].Success

\* C4: a message whose packed batch does not decode is answered in the step
\* that handles it by exactly one negative acknowledgment saying so; no
\* request is handed to client.Do for it; and Write goes back to Recv, or
\* returns the error of that Send on a cancelled stream.
C4_DecodeFailureIsAcked ==
    [][\A st \in Streams :
          (Finishes(st) /\ ~req'[st].PackedBatch.ok)
          => /\ Len(acks'[st]) = Len(acks[st]) + 1
             /\ ~Last(acks'[st]).Success
             /\ Last(acks'[st]).Error.msg = "failed to unpack batch"
             /\ Last(acks'[st]).Error.cause = "decode"
             /\ wire'[st] = wire[st]
             /\ inflight'[st] = NoRequest
             /\ \/ pc'[st] = "recv" /\ ret'[st] = ""
                \/ pc'[st] = "done" /\ ret'[st] = "sendErr" /\ cancelled[st]]_vars

\* A message that does not decode answered, no request made for it, then the
\* next message delivered with one request.
C4_Witness ==
    \E st \in Streams :
        /\ Len(acks[st]) = 2
        /\ ~recvd[st][1].PackedBatch.ok
        /\ acks[st][1].Error.msg = "failed to unpack batch"
        /\ acks[st][2].Success
        /\ Len(wire[st]) = 1

\* A raw configuration that does not parse, or has no endpoint, or an empty
\* one.
NoEndpoint(raw) ==
    \/ ~raw.json
    \/ "endpoint" \notin DOMAIN raw.fields
    \/ raw.fields["endpoint"] = ""

\* C5: CreateSession on a configuration that does not parse, or whose
\* endpoint is missing or empty, returns an error in the one step it takes,
\* and the registry is as before: same identifiers, same sessions, no
\* identifier used up, no creation left in progress.
C5_InvalidConfigCreatesNothing ==
    [][\A t \in RegistryTenants, raw \in RegistryRawConfigs :
          (CreateSessionCall(t, raw) /\ NoEndpoint(raw))
          => /\ rpc'.call = "CreateSession"
             /\ rpc'.err # NoErr
             /\ sessions' = sessions
             /\ sess' = sess
             /\ nextId' = nextId
             /\ create' = create]_vars

\* A call refused for its endpoint while the registry holds one session.
C5_Witness ==
    /\ rpc.call = "CreateSession"
    /\ rpc.err.msg = "endpoint is required"
    /\ Cardinality(sessions) = 1
    /\ create.pc = "idle"

\* C6: CloseSession on an identifier the registry does not hold returns an
\* error to its caller.
C6_CloseUnknownReturnsError ==
    [][\A id \in SessionIds :
          (CloseSessionCall(id) /\ id \notin sessions)
          => rpc'.err # NoErr]_vars

\* C7: CloseSession(id), whether the registry holds id or not, leaves every
\* other identifier in the registry exactly when it was, every session
\* object (tenant, config, client data) as it was, and every stream's state
\* as it was; and a stream that has its session goes on delivering whatever
\* the registry holds: each message it receives is answered in that step or
\* its request is handed to client.Do.
C7_CloseLeavesOthers ==
    [][/\ \A id \in SessionIds :
             CloseSession(id)
             => /\ \A t \in SessionIds \ {id} :
                      /\ (t \in sessions') <=> (t \in sessions)
                      /\ sess'[t] = sess[t]
                /\ \A st \in Streams :
                      /\ pc'[st] = pc[st]
                      /\ ret'[st] = ret[st]
                      /\ currentSession'[st] = currentSession[st]
                      /\ cfg'[st] = cfg[st]
                      /\ client'[st] = client[st]
                      /\ inflight'[st] = inflight[st]
       /\ \A st \in Streams :
             (/\ currentSession[st] # 0
              /\ Received(st)
              /\ WriteRecv(st, Last(recvd'[st])))
             => \/ Finishes(st)
                \/ wire'[st] = Append(wire[st], inflight'[st])]_vars

\* Session 1 closed, session 2 still held with its data, and a stream of
\* session 2 with two batches delivered.
C7_Witness ==
    \E st \in Streams :
        /\ nextId = 3
        /\ sessions = {2}
        /\ HasData(sess[2], "config")
        /\ currentSession[st] = 2
        /\ Len(acks[st]) = 2
        /\ acks[st][1].Success
        /\ acks[st][2].Success

\* C8: when client.Do returned a response, sendBatch returns nil exactly
\* when the status is below 400; for a status of 400 or more it returns the
\* "HTTP %d: %s" error with that status and the bytes of the body that were
\* read, whether or not the read failed.
C8_StatusDecidesOutcome ==
    (sb.pc = "returned" /\ sb.res.cause = "")
    => /\ (sb.err = NoErr) <=> (sb.res.StatusCode < 400)
       /\ sb.res.StatusCode >= 400
          => /\ sb.err.msg = "HTTP"
             /\ sb.err.status = sb.res.StatusCode
             /\ sb.err.body = SubSeq(sb.res.Body, 1, sb.res.read)

\* A 404 whose body could not be read.
C8_Witness ==
    /\ sb.pc = "returned"
    /\ sb.res.StatusCode = 404
    /\ sb.res.read < Len(sb.res.Body)
    /\ sb.err.status = 404
    /\ sb.err.body = <<>>

\* Where part i starts when each part is followed by gap more bytes.
RECURSIVE Start(_, _, _)
Start(parts, i, gap) ==
    IF i = 1 THEN 0
    ELSE Start(parts, i - 1, gap) + Len(parts[i - 1]) + gap

\* C9: with batch_format ndjson sendBatch never fails on the body, and the
\* body of the request is, record by record in input order, the payload's
\* bytes as they are followed by one newline, and nothing else: nothing
\* before the first record, the empty body for no records.
C9_NdjsonBody ==
    sb.cfg.BatchFormat = "ndjson"
    => /\ sb.err.msg # "failed to marshal batch"
       /\ sb.pc \in {"do", "returned"}
          => LET n == Len(sb.b)
                 parts == [i \in 1..n |-> sb.b[i].Payload.b]
                 body == sb.req.Body
             IN  /\ Len(body) = Start(parts, n + 1, 1)
                 /\ \A i \in 1..n :
                       LET at == Start(parts, i, 1)
                       IN  /\ SubSeq(body, at + 1, at + Len(parts[i]))
                               = parts[i]
                           /\ body[at + Len(parts[i]) + 1] = "\n"

\* Two records, neither a compact JSON value, sent as they are.
C9_Witness ==
    /\ sb.pc = "do"
    /\ sb.cfg.BatchFormat = "ndjson"
    /\ sb.b = <<Record(<<"x">>), Record(<<"2", " ">>)>>
    /\ sb.req.Body = <<"x", "\n", "2", " ", "\n">>

\* The JSON value a payload holds: null for a nil payload, else the bytes
\* without the white space around the value.
Value(p) == IF p.nil THEN NullLiteral ELSE SelectSeq(p.b, NoSpace)

\* C10: with any batch_format other than ndjson (json_array, unset, or an
\* unknown value) a request is made only for a batch whose payloads are all
\* JSON values, and its body is one JSON array: "[", the values of the
\* records' payloads in input order with one "," between neighbours, "]";
\* "[]" for no records.  The elements are the payloads' values: white space
\* around a value is not kept, and a nil payload gives null.
C10_JsonArrayBody ==
    (sb.cfg.BatchFormat # "ndjson" /\ sb.pc \in {"do", "returned"})
    => LET n == Len(sb.b)
           vals == [i \in 1..n |-> Value(sb.b[i].Payload)]
           body == sb.req.Body
       IN  /\ \A i \in 1..n :
                 sb.b[i].Payload.nil \/ ValidJSON(sb.b[i].Payload.b)
           /\ body[1] = "["
           /\ Len(body) = IF n = 0 THEN 2 ELSE 1 + Start(vals, n + 1, 1)
           /\ body[Len(body)] = "]"
           /\ \A i \in 1..n :
                 LET at == 1 + Start(vals, i, 1)
                 IN  /\ SubSeq(body, at + 1, at + Len(vals[i])) = vals[i]
                     /\ body[at + Len(vals[i]) + 1]
                            = IF i < n THEN "," ELSE "]"

\* An unknown batch_format and two records with different values.
C10_Witness ==
    /\ sb.pc = "do"
    /\ sb.cfg.BatchFormat = "xml"
    /\ sb.b = <<Record(<<"2", " ">>), Record(<<"1">>)>>
    /\ sb.req.Body = <<"[", "2", ",", "1", "]">>

\* The seconds a raw configuration asks for: its timeout member when that is
\* a duration, else the default of 30.
AskedTimeout(raw) ==
    IF "timeout" \notin DOMAIN raw.fields THEN 30
    ELSE CASE raw.fields["timeout"] = "5s"  -> 5
           [] raw.fields["timeout"] = "30s" -> 30
           [] raw.fields["timeout"] = "1m"  -> 60
           [] OTHER                         -> 30

\* C11: CreateSession on a configuration with an endpoint goes on to create
\* the session whatever its timeout string is, and returns no error; the
\* client it attaches has the timeout the string parses to, or 30 seconds
\* when the string is absent, empty or no duration.
C11_TimeoutFallsBack ==
    [][/\ \A t \in RegistryTenants, raw \in RegistryRawConfigs :
             (CreateSessionCall(t, raw) /\ ~NoEndpoint(raw))
             => /\ rpc'.err = NoErr
                /\ sessions' = sessions \cup {nextId}
                /\ create'.pc = "setClient"
       /\ CreateSetClient
          => sess'[create.id].data["http_client"].Timeout
                = AskedTimeout(sess[create.id].Config)
       /\ CreateSetConfig
          => /\ rpc' = Returned("CreateSession", NoErr, NoErr)
             /\ sess'[create.id].data["http_client"].Timeout
                   = AskedTimeout(sess[create.id].Config)]_vars

\* A session created with a timeout that is no duration, its client at 30
\* seconds, and one created with "5s", its client at 5.
C11_Witness ==
    /\ rpc = Returned("CreateSession", NoErr, NoErr)
    /\ \E i, j \in sessions :
          /\ "timeout" \in DOMAIN sess[i].Config.fields
          /\ "timeout" \in DOMAIN sess[j].Config.fields
          /\ sess[i].Config.fields["timeout"] = "not-a-duration"
          /\ sess[j].Config.fields["timeout"] = "5s"
          /\ HasData(sess[i], "http_client")
          /\ HasData(sess[j], "http_client")
          /\ sess[i].data["http_client"].Timeout = 30
          /\ sess[j].data["http_client"].Timeout = 5

\* C12: a stream's session is the one its first message names, looked up
\* once: after that the stream's session, config and client never change,
\* they are that session's, a later message is never refused for its
\* session identifier: its batch, once decoded, is serialized by that
\* config's format and, unless that fails, sent; and every request of the
\* stream goes to the first session's endpoint with its method, whatever
\* identifier the message carries and whatever the registry holds by then.
C12_SessionResolvedOnce ==
    [][\A st \in Streams :
          /\ currentSession[st] # 0
             => /\ currentSession'[st] = currentSession[st]
                /\ currentSession[st] = recvd[st][1].SessionId
          /\ Bound(st)
             => /\ cfg[st] = sess[currentSession[st]].data["config"]
                /\ client[st] = sess[currentSession[st]].data["http_client"]
                /\ cfg'[st] = cfg[st]
                /\ client'[st] = client[st]
          /\ (Bound(st) /\ Received(st))
             => /\ ret'[st] # "notFound"
                /\ pc'[st] # "getClient"
                /\ Last(recvd'[st]).PackedBatch.ok
                   => \/ /\ Finishes(st)
                         /\ Last(outcomes'[st]).err.msg
                               = "failed to marshal batch"
                         /\ cfg[st].BatchFormat # "ndjson"
                      \/ /\ wire'[st] = Append(wire[st], inflight'[st])
                         /\ inflight'[st].URL = cfg[st].Endpoint
          /\ \A k \in 1..Len(wire[st]) :
                LET first == sess[recvd[st][1].SessionId].data["config"]
                IN  /\ wire[st][k].URL = first.Endpoint
                    /\ wire[st][k].Method
                          = IF first.Method = "" THEN "POST"
                            ELSE first.Method]_vars

\* A stream of session 1 whose second message names session 2, a session
\* with another endpoint: both requests went to session 1's endpoint.
C12_Witness ==
    \E st \in Streams :
        /\ Len(wire[st]) = 2
        /\ recvd[st][1].SessionId = 1
        /\ recvd[st][2].SessionId = 2
        /\ HasData(sess[1], "config")
        /\ HasData(sess[2], "config")
        /\ sess[1].data["config"].Endpoint # sess[2].data["config"].Endpoint
        /\ wire[st][2].URL = sess[1].data["config"].Endpoint

\* C13: when client.Do returns because the stream's context was cancelled
\* while the request was in flight, Write returns in that step and hands no
\* acknowledgment for that batch to Send.
C13_NoAckForAbortedBatch ==
    [][\A st \in Streams :
          (cancelled[st] /\ pc[st] = "do" /\ WriteDo(st, Canceled))
          => /\ acks'[st] = acks[st]
             /\ pc'[st] = "done"]_vars

\* C14: a stream receives a message only when every message before it has
\* had its acknowledgment handed to Send; so at most one message of a stream
\* is received and not acknowledged, at most one request of a stream is
\* with client.Do, and that request is the one of the unacknowledged
\* message.
C14_OneBatchInFlight ==
    [][\A st \in Streams :
          /\ Received(st) => Len(acks[st]) = Len(recvd[st])
          /\ Len(recvd'[st]) - Len(acks'[st]) \in {0, 1}
          /\ Len(wire'[st]) <= Len(acks'[st]) + 1
          /\ (pc'[st] = "do") <=> (inflight'[st] # NoRequest)
          /\ pc'[st] = "do"
             => /\ Len(recvd'[st]) = Len(acks'[st]) + 1
                /\ Len(wire'[st]) >= 1
                /\ inflight'[st] = Last(wire'[st])
          /\ pc'[st] # "do" /\ Bound(st)' => Len(wire'[st]) <= Len(acks'[st])]_vars

\* The second message of a stream with client.Do, the first acknowledged.
C14_Witness ==
    \E st \in Streams :
        /\ pc[st] = "do"
        /\ Len(recvd[st]) = 2
        /\ Len(acks[st]) = 1
        /\ Len(wire[st]) = 2

\* C15: while a stream's request is with client.Do, nothing of the sink
\* waits for it: CloseSession of any identifier, CreateSession and its
\* remaining steps, and every step of another stream (its Recv with the
\* session lookup or the delivery that follows, its reads of the session's
\* data, the return of its own client.Do) can be taken, as far as the
\* bounds of the model leave room for them.
C15_NoLockAcrossDo ==
    \A st \in Streams :
        pc[st] = "do"
        => /\ \A id \in SessionIds : ENABLED (CloseSession(id) /\ UNCHANGED rpc)
           /\ (create.pc = "idle" /\ nextId <= MaxSessions)
              => ENABLED (CreateSession("t1", Scenario) /\ UNCHANGED rpc)
           /\ create.pc = "setClient"
              => ENABLED (CreateSetClient /\ UNCHANGED rpc)
           /\ create.pc = "setConfig"
              => ENABLED (CreateSetConfig /\ UNCHANGED rpc)
           /\ \A o \in Streams \ {st} :
                 /\ (pc[o] = "recv" /\ Total(recvd, Streams) < MaxMsgs)
                    => \A m \in ConcurrentMessages : ENABLED WriteRecv(o, m)
                 /\ pc[o] = "getClient" => ENABLED WriteGetClient(o)
                 /\ pc[o] = "getConfig" => ENABLED WriteGetConfig(o)
                 /\ pc[o] = "do"
                    => \A r \in Responses : ENABLED WriteDo(o, r)

\* Both streams with a request in flight, and the session of one of them
\* closed.
C15_Witness ==
    /\ pc["w1"] = "do"
    /\ pc["w2"] = "do"
    /\ currentSession["w1"] \notin sessions

\* Identifier id was handed out and its session closed.
Closed(id) == id < nextId /\ id \notin sessions

\* C16 as claimed: after CloseSession(id) the registry does not hold id, and
\* a batch received after that, on a stream that has the closed session as
\* well, makes no request.
C16_NoDeliveryAfterClose ==
    [][/\ \A id \in SessionIds : CloseSession(id) => id \notin sessions'
       /\ \A st \in Streams :
             (/\ Received(st)
              /\ \/ currentSession[st] # 0 /\ Closed(currentSession[st])
                 \/ currentSession[st] = 0
                       /\ Closed(Last(recvd'[st]).SessionId))
             => wire'[st] = wire[st]]_vars

\* C16 as amended: after CloseSession(id) the registry does not hold id, and
\* never again; a stream whose first message is received after that and
\* names id makes no request and ends with the lookup's error; a stream that
\* had looked the session up before is not looked up again, and a batch of
\* it that decodes and serializes is sent to the closed session's endpoint.
C16_ClosedSessionNotFound ==
    [][/\ \A id \in SessionIds :
             /\ CloseSession(id) => id \notin sessions'
             /\ Closed(id) => id \notin sessions'
       /\ \A st \in Streams :
             /\ (/\ Received(st)
                 /\ currentSession[st] = 0
                 /\ Closed(Last(recvd'[st]).SessionId))
                => /\ wire'[st] = <<>>
                   /\ pc'[st] = "done"
                   /\ ret'[st] = "notFound"
             /\ (/\ Received(st)
                 /\ Bound(st)
                 /\ Closed(currentSession[st])
                 /\ BuildRequest(cfg[st],
                        UnpackBatch(Last(recvd'[st]).PackedBatch).b).err
                       = NoErr
                 /\ Last(recvd'[st]).PackedBatch.ok)
                => /\ Len(wire'[st]) = Len(wire[st]) + 1
                   /\ Last(wire'[st]).URL
                         = sess[currentSession[st]].data["config"].Endpoint
                   /\ pc'[st] = "do"]_vars

\* A stream with two requests made to the endpoint of its session, which
\* the registry no longer holds.
C16_Witness ==
    \E st \in Streams :
        /\ Bound(st)
        /\ Closed(currentSession[st])
        /\ Len(wire[st]) = 2
        /\ wire[st][2].URL = sess[currentSession[st]].data["config"].Endpoint

\* CreateSession accepts a configuration with the endpoint of c.
Accepted(c) ==
    Validate([json |-> TRUE, fields |-> ("endpoint" :> c.Endpoint)]).err
        = NoErr

\* C17: a request made for a configuration CreateSession accepts (one with
\* an endpoint) has a method among POST, PUT and PATCH: the configured one,
\* or POST when none is configured.
C17_MethodInEnum ==
    (sb.pc \in {"do", "returned"} /\ Accepted(sb.cfg))
    => /\ sb.req.Method \in {"POST", "PUT", "PATCH"}
       /\ sb.req.Method = IF sb.cfg.Method = "" THEN "POST" ELSE sb.cfg.Method

\* C18: the headers of a request are determined by the configured mapping:
\* every configured key carries its configured value, Content-Type is
\* application/json unless a configured key sets it, and whatever order the
\* configured headers are applied in gives these same headers.
C18_HeadersDetermined ==
    sb.pc \in {"do", "returned"}
    => LET hs == sb.cfg.Headers
           h == sb.req.Header
       IN  /\ \A k \in DOMAIN hs :
                 /\ CanonicalMIMEHeaderKey(k) \in DOMAIN h
                 /\ h[CanonicalMIMEHeaderKey(k)] = hs[k]
           /\ (\A k \in DOMAIN hs :
                  CanonicalMIMEHeaderKey(k) # "Content-Type")
              => h["Content-Type"] = "application/json"
           /\ \A o \in RangeOrders(hs) :
                 SetAll(HeaderSet(<<>>, "Content-Type", "application/json"),
                        hs, o) = h

\* C19: the session a stream gets from the registry has its http_client and
\* its config attached, so the type assertions of Write never panic.
C19_BoundSessionIsComplete ==
    \A st \in Streams :
        /\ currentSession[st] # 0
           => /\ HasData(sess[currentSession[st]], "http_client")
              /\ HasData(sess[currentSession[st]], "config")
        /\ ret[st] # "panic"

\* The session stream st has got from the registry has its data attached.
Complete(st) ==
    /\ currentSession[st] # 0
    /\ HasData(sess[currentSession[st]], "http_client")
    /\ HasData(sess[currentSession[st]], "config")
    /\ ret[st] # "panic"

\* C20: under fairness, on a stream whose session has its data a message
\* received and not yet acknowledged eventually has its acknowledgment
\* handed to Send; and whenever Write has returned nil, which it does in the
\* step in which Recv returns io.EOF, every message received has one.
C20_EventuallyAcked ==
    \A st \in Callers :
        /\ (Complete(st) /\ Len(acks[st]) < Len(recvd[st]))
              ~> (Len(acks[st]) = Len(recvd[st]))
        /\ [](ret[st] = "nil"
                 => (pc[st] = "done" /\ Len(acks[st]) = Len(recvd[st])))

\* Two messages received and acknowledged, then the stream ended by its
\* caller: Write returned nil.
C20_Witness ==
    \E st \in Streams :
        /\ ret[st] = "nil"
        /\ Complete(st)
        /\ Len(recvd[st]) = 2
        /\ Len(acks[st]) = 2
        /\ acks[st][1].Success
        /\ ~acks[st][2].Success

====
